---- MODULE Spec2Model ----
(***************************************************************************)
(* Model of tc.py, the command line tool that drives a TE Technology       *)
(* TC-48-20 temperature controller over a serial port.                     *)
(*                                                                         *)
(* Bytes are their integer values (ASCII codes), byte strings are          *)
(* sequences of bytes.  A Python exception is an "err" field that holds    *)
(* the exception's message; err = "none" means the call returned.          *)
(* Numbers in engineering units (floats in the source) are exact           *)
(* fractions [num, den]; None is the record NoneVal.                       *)
(***************************************************************************)
EXTENDS Integers, Sequences, FiniteSets, TLC

(***************************************************************************)
(* Bounds of the model                                                     *)
(***************************************************************************)
\* the clock stops at MaxTime seconds (every loop iteration sleeps >= 1 s)
MaxTime == 7
\* longest time, in seconds, one time.sleep(1) and the rest of its iteration take
MaxNap == 2
\* longest byte string handed to parse_reply in the codec specification
MaxReplyLen == 9
\* number of request/reply exchanges made in the port specification
MaxExchanges == 3

(***************************************************************************)
(* Byte values                                                             *)
(***************************************************************************)
STAR == 42
CARET == 94
CR == 13
CHAR_X == 88

REPLY_LENGTH == 8

(***************************************************************************)
(* binascii.hexlify / binascii.unhexlify, struct.pack / struct.unpack      *)
(***************************************************************************)
\* the lowercase hex digit hexlify emits for a nibble
HexChar(n) == IF n < 10 THEN 48 + n ELSE 87 + n

\* the nibble of a hex digit (either case), -1 for any other byte
HexVal(c) ==
    IF c >= 48 /\ c <= 57 THEN c - 48
    ELSE IF c >= 65 /\ c <= 70 THEN c - 55
    ELSE IF c >= 97 /\ c <= 102 THEN c - 87
    ELSE -1

IsHex(s) == \A i \in 1..Len(s) : HexVal(s[i]) >= 0

\* binascii.hexlify of a sequence of bytes: two lowercase digits per byte
hexlify(bytes) ==
    [i \in 1..(2 * Len(bytes)) |->
        IF i % 2 = 1 THEN HexChar(bytes[(i + 1) \div 2] \div 16)
                     ELSE HexChar(bytes[i \div 2] % 16)]

\* binascii.unhexlify of an even-length string of hex digits
unhexlify(s) ==
    [i \in 1..(Len(s) \div 2) |-> 16 * HexVal(s[2 * i - 1]) + HexVal(s[2 * i])]

\* mutant: the low byte is packed first
pack_h_LittleEndian(data) ==
    LET u == IF data < 0 THEN data + 65536 ELSE data
    IN  <<u % 256, u \div 256>>

\* struct.pack('>h', data): big-endian two's complement, data in -32768..32767
pack_h(data) ==
    LET u == IF data < 0 THEN data + 65536 ELSE data
    IN  <<u \div 256, u % 256>>

\* mutant: the two bytes are decoded as an unsigned number
unpack_h_Unsigned(bytes) == 256 * bytes[1] + bytes[2]

\* struct.unpack('>h', bytes)[0]
unpack_h(bytes) ==
    LET u == 256 * bytes[1] + bytes[2]
    IN  IF u >= 32768 THEN u - 65536 ELSE u

RECURSIVE SumSeq(_)
SumSeq(s) == IF s = <<>> THEN 0 ELSE s[1] + SumSeq(Tail(s))

(***************************************************************************)
(* Base command formatting and parsing                                     *)
(***************************************************************************)
calc_checksum(data_bytes) == SumSeq(data_bytes) % 256

\* struct.pack('>Bh', ...) raises struct.error outside the two ranges
format_command(code, data) ==
    IF code < 0 \/ code > 255 \/ data < -32768 \/ data > 32767
    THEN [err |-> "struct.error", frame |-> <<>>]
    ELSE LET cmd_data == hexlify(<<code>> \o pack_h(data))
             chksum == calc_checksum(cmd_data)
         IN  [err |-> "none",
              frame |-> <<STAR>> \o cmd_data \o hexlify(<<chksum>>) \o <<CR>>]

Raise(msg) == [err |-> msg, val |-> 0]
Return(v) == [err |-> "none", val |-> v]

\* mutant: the end marker is not looked at
FramingOk_NoEndMarker(reply) ==
    /\ Len(reply) = REPLY_LENGTH
    /\ reply[1] = STAR

\* line 72: the length and the two markers
FramingOk(reply) ==
    /\ Len(reply) = REPLY_LENGTH
    /\ reply[1] = STAR
    /\ reply[Len(reply)] = CARET

\* mutant: only the low nibble of the checksum is compared
ChecksumOk_LowNibble(reply) ==
    calc_checksum(SubSeq(reply, 2, 5)) % 16 = unhexlify(SubSeq(reply, 6, 7))[1] % 16

\* lines 75-78: the sum of the value characters against the transmitted byte
ChecksumOk(reply) ==
    calc_checksum(SubSeq(reply, 2, 5)) = unhexlify(SubSeq(reply, 6, 7))[1]

\* mutant: the field is compared with b'xxxx'
IsRejected_LowerCase(reply) == SubSeq(reply, 2, 5) = <<120, 120, 120, 120>>

\* line 81: reply[1:5] == b'XXXX'
IsRejected(reply) == SubSeq(reply, 2, 5) = <<CHAR_X, CHAR_X, CHAR_X, CHAR_X>>

\* unhexlify raises binascii.Error on a byte that is no hex digit
parse_reply(reply) ==
    IF ~FramingOk(reply) THEN Raise("reply invalid")
    ELSE IF ~IsHex(SubSeq(reply, 6, 7)) THEN Raise("Non-hexadecimal digit found")
    ELSE IF ~ChecksumOk(reply) THEN Raise("reply checksum invalid")
    ELSE IF IsRejected(reply) THEN Raise("command checksum invalid")
    ELSE IF ~IsHex(SubSeq(reply, 2, 5)) THEN Raise("Non-hexadecimal digit found")
    ELSE Return(unpack_h(unhexlify(SubSeq(reply, 2, 5))))

(***************************************************************************)
(* Values: None, integers and floats (as exact fractions)                  *)
(***************************************************************************)
NoneVal == [none |-> TRUE, num |-> 0, den |-> 1]
Frac(n, d) == [none |-> FALSE, num |-> n, den |-> d]
Int16(n) == Frac(n, 1)

\* int(x): truncation toward zero of the fraction a / b, b > 0
Trunc(a, b) == IF a >= 0 THEN a \div b ELSE -((-a) \div b)

Abs(x) == IF x < 0 THEN -x ELSE x

(***************************************************************************)
(* class Parameter: (write_cmd, read_cmd, scaling); -1 is a None command   *)
(* code and 0 a None scaling                                               *)
(***************************************************************************)
Parameter(write_cmd, read_cmd, scaling) ==
    [write_cmd |-> write_cmd, read_cmd |-> read_cmd, scaling |-> scaling]

MODEL_CODE == Parameter(-1, 0, 0)
STATUS_ALARM == Parameter(-1, 3, 0)
TEMP_CONTROL_C == Parameter(-1, 1, 10)
TEMP_AUX_C == Parameter(-1, 4, 10)
TEMP_SET_C == Parameter(28, 80, 10)
BW_PROPORTIONAL == Parameter(29, 81, 10)
GAIN_INTEGRAL == Parameter(30, 82, 100)
GAIN_DIFFERENTIAL == Parameter(31, 83, 100)
OUTPUT_ENABLE == Parameter(48, 100, 0)
OUTPUT_POWER == Parameter(-1, 2, 511)

EXPECTED_MODEL == 9613
STATUS_OPEN_SECONDARY == 32

(***************************************************************************)
(* send_command, send_scaled_command, read_property, write_property,       *)
(* each split at the port: the frame port.write is given, and the value    *)
(* returned once port.read has returned the bytes buf                      *)
(***************************************************************************)
\* send_command after port.write: parse_reply(port.read(REPLY_LENGTH))
send_command(buf) == parse_reply(buf)

\* send_scaled_command: the reply divided by 'scaling'
send_scaled_command(buf, scaling) ==
    LET r == send_command(buf)
    IN  IF r.err # "none" THEN [err |-> r.err, val |-> NoneVal]
        ELSE [err |-> "none", val |-> Frac(r.val, scaling)]

\* the frame read_property writes: read commands carry int(0 * scaling) = 0
read_request(prop) == format_command(prop.read_cmd, 0)

\* the value read_property returns: None when anything was raised
read_property(prop, buf) ==
    IF prop.scaling = 0
    THEN LET r == send_command(buf)
         IN  IF r.err # "none" THEN NoneVal ELSE Int16(r.val)
    ELSE LET r == send_scaled_command(buf, prop.scaling)
         IN  IF r.err # "none" THEN NoneVal ELSE r.val

\* the integer write_property encodes: value, or int(value * scaling)
write_data(prop, value) ==
    IF prop.scaling = 0 THEN Trunc(value.num, value.den)
    ELSE Trunc(value.num * prop.scaling, value.den)

\* the frame write_property writes (err = "struct.error": nothing is written)
write_request(prop, value) == format_command(prop.write_cmd, write_data(prop, value))

\* the value write_property returns
write_property(prop, buf) == read_property(prop, buf)

(***************************************************************************)
(* The controller and the serial port: what port.read may return           *)
(***************************************************************************)
\* a reply frame carrying raw, as the controller emits it
ReplyFrame(raw) ==
    LET value == hexlify(pack_h(raw))
    IN  <<STAR>> \o value \o hexlify(<<calc_checksum(value)>>) \o <<CARET>>

\* the controller's answer to a command whose checksum it found wrong
RejectFrame == <<STAR, CHAR_X, CHAR_X, CHAR_X, CHAR_X, 54, 48, CARET>>

\* the raw values the controller may report for a read command
ReadValues(code) ==
    CASE code = 0 -> {9613, 9614}
      [] code = 3 -> {0, 32}
      [] code = 1 -> {100, 300, 302}
      [] code = 4 -> {215}
      [] code = 80 -> {300}
      [] code = 100 -> {0, 1}
      [] code = 2 -> {0, 511}
      [] OTHER -> {}

\* buffers no value can be decoded from: a timeout with no byte, a short
\* reply, a wrong end marker, a corrupted checksum, a rejected command
BadReads ==
    { <<>>,
      SubSeq(ReplyFrame(300), 1, 5),
      [ReplyFrame(300) EXCEPT ![8] = CR],
      [ReplyFrame(300) EXCEPT ![7] = 48],
      RejectFrame }

\* what port.read(REPLY_LENGTH) may return after a read command
PortReads(code) == {ReplyFrame(v) : v \in ReadValues(code)} \cup BadReads

\* what port.read(REPLY_LENGTH) may return after a write of data: the echo
PortEchoes(data) == {ReplyFrame(data)} \cup BadReads

(***************************************************************************)
(* The session: the state                                                  *)
(***************************************************************************)
VARIABLES
    args,           \* the parsed command line (argparse namespace)
    pc,             \* the statement the session is at
    inflight,       \* port.write has returned, port.read has not yet
    wire,           \* every frame handed to port.write, in order
    outcome,        \* "running", "ok" (exit status 0), "failed" (sys.exit(1)),
                    \* "killed" (KeyboardInterrupt outside the cycle handler)
    now,            \* time.time(), in seconds
    status,         \* status sub-command: the status flags read
    set_index,      \* set sub-command: position in the properties dict
    cycle_state, temp_target, time_start, time_stop, cycles_done, cycle_index,
    remaining, temp_current,    \* the locals of perform_cycles
    visited,        \* history: the phases the loop body was evaluated in
    on_target,      \* history: every poll so far succeeded, temperature = target
    ramp_acked,     \* history: the last ramp_to write was echoed by the controller
    interrupted,    \* history: a KeyboardInterrupt was raised
    model_code,     \* history: what the read of MODEL_CODE returned
    reply, parsed,  \* codec specification: the input and result of parse_reply
    call, result,   \* property specification: the arguments of a call of
                    \* format_command, write_property or read_property, and
                    \* what read_property returned
    rxbuf, late,    \* port specification: the bytes in the input buffer of the
                    \* port, and the bytes of a reply that missed the timeout
    exch            \* port specification: the exchange send_command made last

vars == <<args, pc, inflight, wire, outcome, now, status, set_index,
          cycle_state, temp_target, time_start, time_stop, cycles_done,
          cycle_index, remaining, temp_current, visited, on_target, ramp_acked,
          interrupted, model_code, reply, parsed, call, result, rxbuf, late,
          exch>>

cycle_vars == <<cycle_state, temp_target, time_start, time_stop, cycles_done,
                cycle_index, remaining, temp_current, visited, on_target, ramp_acked>>

codec_vars == <<reply, parsed, call, result>>

port_vars == <<rxbuf, late, exch>>

(***************************************************************************)
(* The command lines the model runs                                        *)
(***************************************************************************)
\* cycle points (duration in seconds, temperature): A is 30.0, B is 10.0
Dwells == {0, 2}
PointA(d) == [dur |-> d, temp |-> Frac(300, 10)]
PointB(d) == [dur |-> d, temp |-> Frac(100, 10)]
CyclePointLists ==
    {<<PointA(d)>> : d \in Dwells}
    \cup {<<PointA(da), PointB(db)>> : da \in Dwells, db \in Dwells}

\* --cycles: omitted (None), or a number
CycleLimits == {NoneVal, Int16(0), Int16(1), Int16(2)}

NoArgs ==
    [sub_command |-> "status", dry_run |-> FALSE, cycles |-> NoneVal,
     cycle_points |-> <<>>, points_valid |-> TRUE,
     temp |-> NoneVal, proportional |-> NoneVal, integral |-> NoneVal,
     differential |-> NoneVal]

StatusArgs == {NoArgs}

\* set: 23.5 and 4000.0 degrees (the latter does not fit 16 bits), 1.5, 0.25
SetArgs ==
    {[NoArgs EXCEPT !.sub_command = "set", !.temp = t, !.proportional = p,
                    !.differential = d] :
        t \in {NoneVal, Frac(235, 10), Frac(40000, 10)},
        p \in {NoneVal, Frac(15, 10)},
        d \in {NoneVal, Frac(25, 100)}}

CycleArgs ==
    {[NoArgs EXCEPT !.sub_command = "cycle", !.dry_run = dry, !.cycles = n,
                    !.cycle_points = pts] :
        dry \in BOOLEAN, n \in CycleLimits, pts \in CyclePointLists}
    \cup {[NoArgs EXCEPT !.sub_command = "cycle", !.points_valid = FALSE]}

ArgsSet == StatusArgs \cup SetArgs \cup CycleArgs

Init ==
    /\ args \in ArgsSet
    /\ pc = "handshake"
    /\ inflight = FALSE
    /\ wire = <<>>
    /\ outcome = "running"
    /\ now = 0
    /\ status = NoneVal
    /\ set_index = 1
    /\ cycle_state = "RAMPING"
    /\ temp_target = NoneVal
    /\ time_start = 0
    /\ time_stop = 0
    /\ cycles_done = 0
    /\ cycle_index = 0
    /\ remaining = NoneVal
    /\ temp_current = NoneVal
    /\ visited = <<>>
    /\ on_target = TRUE
    /\ ramp_acked = TRUE
    /\ interrupted = FALSE
    /\ model_code = NoneVal
    /\ reply = <<>>
    /\ parsed = Raise("unset")
    /\ call = NoneVal
    /\ result = NoneVal
    /\ rxbuf = <<>>
    /\ late = <<>>
    /\ exch = NoneVal

(***************************************************************************)
(* Steps shared by every call site                                         *)
(***************************************************************************)
\* port.write(frame): the frame is on the wire, the reply is awaited
PortWrite(frame) ==
    /\ wire' = Append(wire, frame)
    /\ inflight' = TRUE

\* the session ends: sys.exit(1) from the handler of line 337, or the end
Exit(how) ==
    /\ pc' = "exit"
    /\ outcome' = how

Goto(label) ==
    /\ pc' = label
    /\ outcome' = outcome

(***************************************************************************)
(* Startup: read_property(port, Parameter.MODEL_CODE) != 9613              *)
(***************************************************************************)
\* mutant: only a failed read is refused
InvalidController_NoneOnly(model) == model.none

\* the test of line 268 on the value read
InvalidController(model) == model.none \/ model.num # EXPECTED_MODEL * model.den

HandshakeSend ==
    /\ pc = "handshake" /\ ~inflight
    /\ PortWrite(read_request(MODEL_CODE).frame)
    /\ UNCHANGED <<args, pc, outcome, now, status, set_index, cycle_vars,
                   interrupted, model_code, codec_vars, port_vars>>

HandshakeRecv ==
    /\ pc = "handshake" /\ inflight
    /\ inflight' = FALSE
    /\ \E buf \in PortReads(MODEL_CODE.read_cmd) :
          /\ model_code' = read_property(MODEL_CODE, buf)
          /\ IF InvalidController(model_code')
             THEN Exit("failed")
             ELSE Goto(args.sub_command)
    /\ UNCHANGED <<args, wire, now, status, set_index, cycle_vars,
                   interrupted, codec_vars, port_vars>>

(***************************************************************************)
(* KeyboardInterrupt: raised wherever the main thread is; it is not an     *)
(* Exception, so only the handler of line 330 catches it                   *)
(***************************************************************************)
CyclePcs == {"cycle", "ramp0", "loop", "poll_temp", "eval", "ramp", "post",
             "poll_power", "sleep"}

\* mutant: no handler for KeyboardInterrupt
InterruptOutcome_Uncaught(at) == "killed"

\* how the session ends when KeyboardInterrupt is raised at the statement at
InterruptOutcome(at) == IF at \in CyclePcs THEN "ok" ELSE "killed"

Interrupt ==
    /\ pc # "exit"
    /\ interrupted' = TRUE
    /\ Exit(InterruptOutcome(pc))
    /\ UNCHANGED <<args, inflight, wire, now, status, set_index, cycle_vars,
                   model_code, codec_vars, port_vars>>

(***************************************************************************)
(* status sub-command                                                      *)
(***************************************************************************)
StatusPcs == {"status", "st_setpoint", "st_temp", "st_aux", "st_enable", "st_power"}

StatusProp(at) ==
    CASE at = "status" -> STATUS_ALARM
      [] at = "st_setpoint" -> TEMP_SET_C
      [] at = "st_temp" -> TEMP_CONTROL_C
      [] at = "st_aux" -> TEMP_AUX_C
      [] at = "st_enable" -> OUTPUT_ENABLE
      [] at = "st_power" -> OUTPUT_POWER

\* status & mask, for a one-bit mask
BitAnd(v, mask) == ((v % 65536) \div mask) % 2 = 1

\* where the status sub-command goes once the read at 'at' returned r, with
\* the status flags st; "TypeError" when r is None in arithmetic or '{:.1f}'
StatusAfter(at, r, st) ==
    CASE at = "status" -> IF r.none THEN "TypeError" ELSE "st_setpoint"
      [] at = "st_setpoint" -> IF r.none THEN "TypeError" ELSE "st_temp"
      [] at = "st_temp" ->
            IF r.none THEN "TypeError"
            ELSE IF ~BitAnd(st.num, STATUS_OPEN_SECONDARY) THEN "st_aux"
            ELSE "st_enable"
      [] at = "st_aux" -> IF r.none THEN "TypeError" ELSE "st_enable"
      [] at = "st_enable" ->
            IF ~r.none /\ r.num = r.den THEN "st_power" ELSE "done"
      [] at = "st_power" -> IF r.none THEN "TypeError" ELSE "done"

StatusSend ==
    /\ pc \in StatusPcs /\ ~inflight
    /\ PortWrite(read_request(StatusProp(pc)).frame)
    /\ UNCHANGED <<args, pc, outcome, now, status, set_index, cycle_vars,
                   interrupted, model_code, codec_vars, port_vars>>

StatusRecv ==
    /\ pc \in StatusPcs /\ inflight
    /\ inflight' = FALSE
    /\ \E buf \in PortReads(StatusProp(pc).read_cmd) :
          LET r == read_property(StatusProp(pc), buf)
              st == IF pc = "status" THEN r ELSE status
              to == StatusAfter(pc, r, st)
          IN  /\ status' = st
              /\ IF to = "TypeError" THEN Exit("failed")
                 ELSE IF to = "done" THEN Exit("ok")
                 ELSE Goto(to)
    /\ UNCHANGED <<args, wire, now, set_index, cycle_vars, interrupted,
                   model_code, codec_vars, port_vars>>

(***************************************************************************)
(* set sub-command: the properties dict, in insertion order                *)
(***************************************************************************)
SetProperties ==
    << [value |-> args.temp, param |-> TEMP_SET_C],
       [value |-> args.proportional, param |-> BW_PROPORTIONAL],
       [value |-> args.integral, param |-> GAIN_INTEGRAL],
       [value |-> args.differential, param |-> GAIN_DIFFERENTIAL] >>

\* for desc in properties: a value of None is skipped, a value that cannot
\* be packed makes write_property print and return None with nothing written
SetSend ==
    /\ pc = "set" /\ ~inflight /\ set_index <= Len(SetProperties)
    /\ LET p == SetProperties[set_index]
           req == write_request(p.param, p.value)
       IN  IF ~p.value.none /\ req.err = "none"
           THEN PortWrite(req.frame) /\ set_index' = set_index
           ELSE /\ set_index' = set_index + 1
                /\ UNCHANGED <<wire, inflight>>
    /\ UNCHANGED <<args, pc, outcome, now, status, cycle_vars, interrupted, model_code,
                   codec_vars, port_vars>>

\* the result only selects the message printed
SetRecv ==
    /\ pc = "set" /\ inflight
    /\ inflight' = FALSE
    /\ LET p == SetProperties[set_index]
       IN  \E buf \in PortEchoes(write_data(p.param, p.value)) :
              write_property(p.param, buf).none \in BOOLEAN
    /\ set_index' = set_index + 1
    /\ UNCHANGED <<args, pc, wire, outcome, now, status, cycle_vars,
                   interrupted, model_code, codec_vars, port_vars>>

SetDone ==
    /\ pc = "set" /\ ~inflight /\ set_index > Len(SetProperties)
    /\ Exit("ok")
    /\ UNCHANGED <<args, inflight, wire, now, status, set_index, cycle_vars,
                   interrupted, model_code, codec_vars, port_vars>>

(***************************************************************************)
(* cycle sub-command: perform_cycles                                       *)
(***************************************************************************)
STABLE_BAND == Frac(2, 10)

\* abs(temp_current - temp_target) <= STABLE_BAND, on exact fractions
InBand(cur, tgt) ==
    Abs(cur.num * tgt.den - tgt.num * cur.den) * STABLE_BAND.den
        <= STABLE_BAND.num * cur.den * tgt.den

\* temp_current == temp_target (None equals no number)
SameTemp(cur, tgt) ==
    ~cur.none /\ ~tgt.none /\ cur.num * tgt.den = tgt.num * cur.den

\* while remaining is None or remaining > 0  (also the test of line 234)
LoopCond(rem) == rem.none \/ rem.num > 0

\* mutant: the ramp is also started when no cycle remains
ShouldRamp_OffByOne(rem, dry) == rem.none \/ (rem.num >= 0 /\ ~dry)

\* if remaining is None or remaining > 0 and not dry_run
ShouldRamp(rem, dry) == rem.none \/ (rem.num > 0 /\ ~dry)

\* mutant: the remaining count is never decremented
Decrement_Never(rem) == rem

\* mutant: the remaining count drops by two
Decrement_Twice(rem) == IF rem.none THEN rem ELSE Int16(rem.num - 2)

\* remaining -= 1, if remaining is not None
Decrement(rem) == IF rem.none THEN rem ELSE Int16(rem.num - 1)

\* lines 184-198: the clock readings and the counters before the loop
EnterLoop ==
    /\ time_start' = now
    /\ time_stop' = time_start'
    /\ cycles_done' = 0
    /\ cycle_index' = 0
    /\ remaining' = args.cycles
    /\ Goto("loop")

\* lines 316-329 and 175-180: the cycle points are parsed (ValueError on a
\* malformed one) and perform_cycles starts with the first point as target
CycleParse ==
    /\ pc = "cycle"
    /\ IF ~args.points_valid
       THEN Exit("failed") /\ UNCHANGED <<cycle_state, temp_target>>
       ELSE /\ cycle_state' = "RAMPING"
            /\ temp_target' = args.cycle_points[1].temp
            /\ Goto("ramp0")
    /\ UNCHANGED <<args, inflight, wire, now, status, set_index, time_start, time_stop,
                   cycles_done, cycle_index, remaining, temp_current, visited,
                   on_target, ramp_acked, interrupted, model_code, codec_vars, port_vars>>

\* lines 181-182: if not dry_run: ramp_to(port, temp_target)
RampInitSend ==
    /\ pc = "ramp0" /\ ~inflight
    /\ LET req == write_request(TEMP_SET_C, temp_target)
       IN  IF args.dry_run
           THEN EnterLoop /\ UNCHANGED <<wire, inflight, ramp_acked>>
           ELSE IF req.err = "none"
           THEN /\ PortWrite(req.frame)
                /\ ramp_acked' = FALSE
                /\ UNCHANGED <<pc, outcome, time_start, time_stop, cycles_done, cycle_index,
                               remaining>>
           ELSE EnterLoop /\ ramp_acked' = FALSE /\ UNCHANGED <<wire, inflight>>
    /\ UNCHANGED <<args, now, status, set_index, cycle_state, temp_target,
                   temp_current, visited, on_target, interrupted,
                   model_code, codec_vars, port_vars>>

\* ramp_to drops what write_property returns
RampInitRecv ==
    /\ pc = "ramp0" /\ inflight
    /\ inflight' = FALSE
    /\ \E buf \in PortEchoes(write_data(TEMP_SET_C, temp_target)) :
          ramp_acked' = ~write_property(TEMP_SET_C, buf).none
    /\ EnterLoop
    /\ UNCHANGED <<args, wire, now, status, set_index, cycle_state, temp_target,
                   temp_current, visited, on_target, interrupted,
                   model_code, codec_vars, port_vars>>

\* lines 199-203: the loop test, and the dry-run stand-in for the poll
LoopHead ==
    /\ pc = "loop"
    /\ IF ~LoopCond(remaining)
       THEN Exit("ok") /\ UNCHANGED temp_current
       ELSE IF args.dry_run
       THEN temp_current' = temp_target /\ Goto("eval")
       ELSE Goto("poll_temp") /\ UNCHANGED temp_current
    /\ UNCHANGED <<args, inflight, wire, now, status, set_index, cycle_state,
                   temp_target, time_start, time_stop, cycles_done, cycle_index, remaining,
                   visited, on_target, ramp_acked, interrupted,
                   model_code, codec_vars, port_vars>>

\* line 201: temp_current = read_actual_temp(port)
PollTempSend ==
    /\ pc = "poll_temp" /\ ~inflight
    /\ PortWrite(read_request(TEMP_CONTROL_C).frame)
    /\ UNCHANGED <<args, pc, outcome, now, status, set_index, cycle_vars,
                   interrupted, model_code, codec_vars, port_vars>>

PollTempRecv ==
    /\ pc = "poll_temp" /\ inflight
    /\ inflight' = FALSE
    /\ \E buf \in PortReads(TEMP_CONTROL_C.read_cmd) :
          /\ temp_current' = read_property(TEMP_CONTROL_C, buf)
          /\ on_target' = (on_target /\ SameTemp(temp_current', temp_target))
    /\ Goto("eval")
    /\ UNCHANGED <<args, wire, now, status, set_index, cycle_state, temp_target,
                   time_start, time_stop, cycles_done, cycle_index, remaining, visited,
                   ramp_acked, interrupted, model_code, codec_vars, port_vars>>

\* the phase an iteration is evaluated in, appended when it differs from the last
Visit(trace, phase) ==
    IF trace # <<>> /\ trace[Len(trace)] = phase THEN trace ELSE Append(trace, phase)

\* mutant: the hold ends at the first evaluation
HoldOver_Always(t, stop) == TRUE

\* line 218: time.time() >= time_stop
HoldOver(t, stop) == t >= stop

\* mutant: the dwell duration is never added
HoldDeadline_NoDwell(start, dur, dry) == start

\* line 211-213: the end of the hold that starts at time_start
HoldDeadline(start, dur, dry) == IF dry THEN start ELSE start + dur

\* lines 204-232: one evaluation of the state machine.  In RAMPING a
\* temp_current of None raises TypeError in abs(temp_current - temp_target)
Eval ==
    /\ pc = "eval"
    /\ visited' = Visit(visited, <<cycle_state, cycle_index>>)
    /\ IF cycle_state = "RAMPING"
       THEN IF temp_current.none
            THEN /\ Exit("failed")
                 /\ UNCHANGED <<cycle_state, time_start, time_stop, cycle_index, temp_target,
                                cycles_done, remaining>>
            ELSE /\ IF InBand(temp_current, temp_target)
                    THEN /\ cycle_state' = "STABLE"
                         /\ time_start' = now
                         /\ time_stop' = HoldDeadline(time_start',
                                 args.cycle_points[cycle_index + 1].dur, args.dry_run)
                    ELSE UNCHANGED <<cycle_state, time_start, time_stop>>
                 /\ Goto("post")
                 /\ UNCHANGED <<cycle_index, temp_target, cycles_done, remaining>>
       ELSE IF HoldOver(now, time_stop)
            THEN LET next_index == (cycle_index + 1) % Len(args.cycle_points)
                     finished == next_index = 0
                 IN  /\ cycle_index' = next_index
                     /\ cycle_state' = "RAMPING"
                     /\ temp_target' = args.cycle_points[next_index + 1].temp
                     /\ cycles_done' = IF finished THEN cycles_done + 1 ELSE cycles_done
                     /\ remaining' = IF finished THEN Decrement(remaining) ELSE remaining
                     /\ IF ShouldRamp(remaining', args.dry_run)
                        THEN Goto("ramp") ELSE Goto("post")
                     /\ UNCHANGED <<time_start, time_stop>>
            ELSE /\ Goto("post")
                 /\ UNCHANGED <<cycle_state, time_start, time_stop, cycle_index, temp_target,
                                cycles_done, remaining>>
    /\ UNCHANGED <<args, inflight, wire, now, status, set_index, temp_current,
                   on_target, ramp_acked, interrupted, model_code, codec_vars, port_vars>>

\* line 232: ramp_to(port, temp_target)
RampSend ==
    /\ pc = "ramp" /\ ~inflight
    /\ ramp_acked' = FALSE
    /\ LET req == write_request(TEMP_SET_C, temp_target)
       IN  IF req.err = "none"
           THEN PortWrite(req.frame) /\ UNCHANGED <<pc, outcome>>
           ELSE Goto("post") /\ UNCHANGED <<wire, inflight>>
    /\ UNCHANGED <<args, now, status, set_index, cycle_state, temp_target,
                   time_start, time_stop, cycles_done, cycle_index, remaining, temp_current,
                   visited, on_target, interrupted, model_code, codec_vars, port_vars>>

RampRecv ==
    /\ pc = "ramp" /\ inflight
    /\ inflight' = FALSE
    /\ \E buf \in PortEchoes(write_data(TEMP_SET_C, temp_target)) :
          ramp_acked' = ~write_property(TEMP_SET_C, buf).none
    /\ Goto("post")
    /\ UNCHANGED <<args, wire, now, status, set_index, cycle_state, temp_target,
                   time_start, time_stop, cycles_done, cycle_index, remaining, temp_current,
                   visited, on_target, interrupted, model_code, codec_vars, port_vars>>

\* lines 234-238: the progress report is skipped once the run is over
Post ==
    /\ pc = "post"
    /\ IF ~LoopCond(remaining) THEN Goto("loop")
       ELSE IF args.dry_run THEN Goto("sleep")
       ELSE Goto("poll_power")
    /\ UNCHANGED <<args, inflight, wire, now, status, set_index, cycle_vars,
                   interrupted, model_code, codec_vars, port_vars>>

\* line 236: output_power = read_actual_power(port)
PollPowerSend ==
    /\ pc = "poll_power" /\ ~inflight
    /\ PortWrite(read_request(OUTPUT_POWER).frame)
    /\ UNCHANGED <<args, pc, outcome, now, status, set_index, cycle_vars,
                   interrupted, model_code, codec_vars, port_vars>>

\* lines 240-241: 100 * output_power raises TypeError when the read failed
PollPowerRecv ==
    /\ pc = "poll_power" /\ inflight
    /\ inflight' = FALSE
    /\ \E buf \in PortReads(OUTPUT_POWER.read_cmd) :
          LET output_power == read_property(OUTPUT_POWER, buf)
          IN  /\ on_target' = (on_target /\ ~output_power.none)
              /\ IF output_power.none THEN Exit("failed") ELSE Goto("sleep")
    /\ UNCHANGED <<args, wire, now, status, set_index, cycle_state, temp_target,
                   time_start, time_stop, cycles_done, cycle_index, remaining, temp_current,
                   visited, ramp_acked, interrupted, model_code, codec_vars, port_vars>>

\* line 242: time.sleep(1); the clock is only read once per iteration
Sleep ==
    /\ pc = "sleep"
    /\ \E d \in 1..MaxNap : now + d <= MaxTime /\ now' = now + d
    /\ Goto("loop")
    /\ UNCHANGED <<args, inflight, wire, status, set_index, cycle_vars,
                   interrupted, model_code, codec_vars, port_vars>>

(***************************************************************************)
(* The session                                                             *)
(***************************************************************************)
Next ==
    \/ HandshakeSend \/ HandshakeRecv
    \/ StatusSend \/ StatusRecv
    \/ SetSend \/ SetRecv \/ SetDone
    \/ CycleParse \/ RampInitSend \/ RampInitRecv
    \/ LoopHead \/ PollTempSend \/ PollTempRecv \/ Eval
    \/ RampSend \/ RampRecv \/ Post \/ PollPowerSend \/ PollPowerRecv \/ Sleep
    \/ Interrupt

Spec == Init /\ [][Next]_vars

(***************************************************************************)
(* The codec on its own: parse_reply applied to a byte string              *)
(***************************************************************************)
\* value fields: XXXX, hexlify of some numbers, upper case digits, a byte
\* that is no hex digit, a partly crossed-out field
ValueFields ==
    {<<CHAR_X, CHAR_X, CHAR_X, CHAR_X>>, <<48, 48, 69, 66>>, <<48, 48, 71, 48>>,
     <<CHAR_X, CHAR_X, CHAR_X, 48>>}
    \cup {hexlify(pack_h(v)) : v \in {0, 235, 9613, -1, -32768}}

\* checksum fields for a value field: the right one, the right one plus
\* one, "60", "00", and two bytes that are no hex digits
ChecksumFields(value) ==
    {hexlify(<<calc_checksum(value)>>), hexlify(<<(calc_checksum(value) + 1) % 256>>),
     <<54, 48>>, <<48, 48>>, <<54, 71>>}

EightBytes ==
    {<<first>> \o value \o chk \o <<last>> :
        first \in {STAR, CARET, 33}, last \in {CARET, STAR, CR},
        value \in ValueFields, chk \in UNION {ChecksumFields(v) : v \in ValueFields}}

\* every prefix of those (a read that timed out), and longer strings
ReplyInputs ==
    {SubSeq(e, 1, k) : e \in EightBytes, k \in 0..REPLY_LENGTH}
    \cup {e \o [i \in 1..k |-> CARET] : e \in EightBytes, k \in 1..(MaxReplyLen - REPLY_LENGTH)}

CodecInit ==
    /\ reply \in ReplyInputs
    /\ parsed = Raise("unset")
    /\ args = NoArgs
    /\ pc = "codec"
    /\ inflight = FALSE
    /\ wire = <<>>
    /\ outcome = "running"
    /\ now = 0
    /\ status = NoneVal
    /\ set_index = 1
    /\ cycle_state = "RAMPING"
    /\ temp_target = NoneVal
    /\ time_start = 0
    /\ time_stop = 0
    /\ cycles_done = 0
    /\ cycle_index = 0
    /\ remaining = NoneVal
    /\ temp_current = NoneVal
    /\ visited = <<>>
    /\ on_target = TRUE
    /\ ramp_acked = TRUE
    /\ interrupted = FALSE
    /\ model_code = NoneVal
    /\ call = NoneVal
    /\ result = NoneVal
    /\ rxbuf = <<>>
    /\ late = <<>>
    /\ exch = NoneVal

ParseReply ==
    /\ pc = "codec"
    /\ parsed' = parse_reply(reply)
    /\ pc' = "parsed"
    /\ UNCHANGED <<args, inflight, wire, outcome, now, status, set_index,
                   cycle_vars, interrupted, model_code, reply, call, result,
                   port_vars>>

CodecNext == ParseReply

SpecCodec == CodecInit /\ [][CodecNext]_vars

\* parse_reply has been applied to reply
Parsed == pc = "parsed"

\* reply has the length and the markers of a reply frame
WellFramed ==
    Len(reply) = REPLY_LENGTH /\ reply[1] = STAR /\ reply[REPLY_LENGTH] = CARET

ValueField == SubSeq(reply, 2, 5)
ChecksumField == SubSeq(reply, 6, 7)

----
(***************************************************************************)
(* Frame specification: format_command on a code and a value, then         *)
(* parse_reply on the value field of the frame, framed as a reply          *)
(***************************************************************************)
\* no session is running: the variables of the session at rest
SessionIdle ==
    /\ args = NoArgs
    /\ inflight = FALSE
    /\ outcome = "running"
    /\ now = 0
    /\ status = NoneVal
    /\ set_index = 1
    /\ cycle_state = "RAMPING"
    /\ temp_target = NoneVal
    /\ time_start = 0
    /\ time_stop = 0
    /\ cycles_done = 0
    /\ cycle_index = 0
    /\ remaining = NoneVal
    /\ temp_current = NoneVal
    /\ visited = <<>>
    /\ on_target = TRUE
    /\ ramp_acked = TRUE
    /\ interrupted = FALSE
    /\ model_code = NoneVal

session_vars == <<args, inflight, outcome, now, status, set_index, cycle_vars,
                  interrupted, model_code>>

\* struct.pack('>Bh'): an unsigned byte and a signed 16-bit number
FrameCodes == 0..255
ValueRange == -32768..32767

\* the values at which a byte or the sign of the value field changes
EdgeValues ==
    {-32768, -32767, -4096, -257, -256, -255, -129, -128, -127, -16, -1, 0, 1,
     15, 16, 127, 128, 129, 255, 256, 257, 4095, 4096, 32766, 32767}

\* every code with every edge value, and the setpoint write with every value
FrameCalls ==
    {[code |-> c, data |-> d] : c \in FrameCodes, d \in EdgeValues}
    \cup {[code |-> TEMP_SET_C.write_cmd, data |-> d] : d \in ValueRange}

FrameInit ==
    /\ call \in FrameCalls
    /\ pc = "call"
    /\ wire = <<>>
    /\ reply = <<>>
    /\ parsed = Raise("unset")
    /\ result = NoneVal
    /\ rxbuf = <<>>
    /\ late = <<>>
    /\ exch = NoneVal
    /\ SessionIdle

\* line 65-69: the frame of the call
FormatCommand ==
    /\ pc = "call"
    /\ format_command(call.code, call.data).err = "none"
    /\ wire' = <<format_command(call.code, call.data).frame>>
    /\ pc' = "formatted"
    /\ UNCHANGED <<session_vars, reply, parsed, call, result, port_vars>>

\* the 4 value characters of a frame, framed as the controller's reply
EchoOf(frame) ==
    LET value == SubSeq(frame, 4, 7)
    IN  <<STAR>> \o value \o hexlify(<<calc_checksum(value)>>) \o <<CARET>>

\* line 71-84: parse_reply on the echo of the frame
EchoReply ==
    /\ pc = "formatted"
    /\ reply' = EchoOf(wire[1])
    /\ parsed' = parse_reply(reply')
    /\ pc' = "echoed"
    /\ UNCHANGED <<session_vars, wire, call, result, port_vars>>

FrameNext == FormatCommand \/ EchoReply

SpecFrame == FrameInit /\ [][FrameNext]_vars

\* format_command has returned the frame wire[1]
Formatted == pc \in {"formatted", "echoed"}
\* parse_reply has returned for the echo of that frame
Echoed == pc = "echoed"
\* the number a string of hex digits spells, most significant digit first
RECURSIVE HexNumber(_)
HexNumber(s) ==
    IF s = <<>> THEN 0
    ELSE 16 * HexNumber(SubSeq(s, 1, Len(s) - 1)) + HexVal(s[Len(s)])

\* C11: for every code 0..255 and every signed 16-bit value, the 4 value
\* characters of the frame format_command builds, framed as a reply with
\* their checksum, are parsed by parse_reply to exactly the original value.
C11_RoundTrip == Echoed => parsed = Return(call.data)

\* a negative extreme and a positive extreme have made the round trip
C11_Witness ==
    /\ Echoed
    /\ call.data \in {-32768, 32767}
    /\ call.code = 255
    /\ parsed.err = "none"

\* C14: every frame of format_command is '*', 2 hex characters spelling the
\* code, 4 hex characters spelling the value in big-endian two's complement,
\* 2 hex characters spelling the checksum, and a carriage return; the
\* checksum is the sum mod 256 of the 6 characters of code and value.
C14_FrameLayout ==
    Formatted =>
        LET frame == wire[1]
        IN  /\ Len(frame) = 10
            /\ frame[1] = STAR
            /\ frame[10] = CR
            /\ IsHex(SubSeq(frame, 2, 9))
            /\ HexNumber(SubSeq(frame, 2, 3)) = call.code
            /\ HexNumber(SubSeq(frame, 4, 7)) = call.data % 65536
            /\ HexNumber(SubSeq(frame, 8, 9))
                   = (frame[2] + frame[3] + frame[4] + frame[5] + frame[6]
                      + frame[7]) % 256

\* a frame of a negative value whose two value bytes differ
C14_Witness ==
    /\ Formatted
    /\ call.code = TEMP_SET_C.write_cmd
    /\ call.data = -2
    /\ SubSeq(wire[1], 4, 7) = <<102, 102, 102, 101>>

\* C8 (as written): every well-framed reply whose value field is "XXXX" fails
\* with 'command checksum invalid', whatever its two checksum characters are.
C8_RejectedWhateverChecksum ==
    (Parsed /\ WellFramed /\ ValueField = <<CHAR_X, CHAR_X, CHAR_X, CHAR_X>>)
        => parsed.err = "command checksum invalid"

\* C8 (amended): a well-framed reply whose value field is "XXXX" never yields a
\* value; it fails with 'command checksum invalid' exactly when its checksum
\* characters are hex digits that encode 0x60, the sum of "XXXX" mod 256; with
\* hex digits of any other byte it fails with 'reply checksum invalid', and
\* with a checksum character that is no hex digit unhexlify raises.
C8_RejectedWhenChecksumRight ==
    (Parsed /\ WellFramed /\ ValueField = <<CHAR_X, CHAR_X, CHAR_X, CHAR_X>>)
        => /\ parsed.err # "none"
           /\ parsed.err = "command checksum invalid"
                <=> (HexVal(ChecksumField[1]) = 6 /\ HexVal(ChecksumField[2]) = 0)
           /\ parsed.err = "reply checksum invalid"
                <=> /\ HexVal(ChecksumField[1]) >= 0 /\ HexVal(ChecksumField[2]) >= 0
                    /\ 16 * HexVal(ChecksumField[1]) + HexVal(ChecksumField[2]) # 96
           /\ parsed.err = "Non-hexadecimal digit found"
                <=> (HexVal(ChecksumField[1]) < 0 \/ HexVal(ChecksumField[2]) < 0)

\* an "XXXX" reply with checksum "60" was rejected as a command checksum failure
C8_Witness ==
    /\ Parsed /\ WellFramed
    /\ ValueField = <<CHAR_X, CHAR_X, CHAR_X, CHAR_X>>
    /\ ChecksumField = <<54, 48>>
    /\ parsed.err = "command checksum invalid"

\* C9: every byte string whose length is not 8, and every 8-byte string whose
\* first byte is not '*' or whose last byte is not '^', fails with 'reply
\* invalid': no value and no checksum outcome.
C9_FramingFailure ==
    (Parsed /\ ~WellFramed) => parsed.err = "reply invalid"

\* a read that timed out after 5 bytes was refused as 'reply invalid'
C9_Witness ==
    /\ Parsed /\ Len(reply) = 5 /\ reply[1] = STAR
    /\ parsed.err = "reply invalid"

\* C10: a well-framed reply with a hexadecimal value field whose transmitted
\* checksum byte differs from the sum mod 256 of the 4 value characters fails
\* with 'reply checksum invalid', and a value is returned only when the
\* transmitted checksum equals the recomputed one.
C10_ChecksumMismatch ==
    Parsed =>
        /\ (/\ WellFramed /\ IsHex(ValueField) /\ IsHex(ChecksumField)
            /\ 16 * HexVal(ChecksumField[1]) + HexVal(ChecksumField[2])
                 # (ValueField[1] + ValueField[2] + ValueField[3] + ValueField[4]) % 256)
           => parsed.err = "reply checksum invalid"
        /\ parsed.err = "none"
           => /\ WellFramed /\ IsHex(ChecksumField)
              /\ 16 * HexVal(ChecksumField[1]) + HexVal(ChecksumField[2])
                   = (ValueField[1] + ValueField[2] + ValueField[3] + ValueField[4]) % 256

\* the reply carrying 9613 with its checksum off by one was refused
C10_Witness ==
    /\ Parsed /\ WellFramed
    /\ ValueField = <<50, 53, 56, 100>>
    /\ 16 * HexVal(ChecksumField[1]) + HexVal(ChecksumField[2]) = (50 + 53 + 56 + 100 + 1) % 256
    /\ parsed.err = "reply checksum invalid"

----
(***************************************************************************)
(* Reading the wire                                                        *)
(***************************************************************************)
\* the command code and the value a command frame carries
FrameCode(frame) == unhexlify(SubSeq(frame, 2, 3))[1]
FrameData(frame) == unpack_h(unhexlify(SubSeq(frame, 4, 7)))

IsSetpointWrite(frame) == FrameCode(frame) = 28
SetpointWrites == SelectSeq(wire, IsSetpointWrite)

Cycling == args.sub_command = "cycle" /\ args.points_valid
TwoPoints == Cycling /\ Len(args.cycle_points) = 2
Limited == ~args.cycles.none

\* a KeyboardInterrupt is raised in this step, inside the cycle handler
CancelStep == pc \in CyclePcs /\ ~interrupted /\ interrupted'

\* C1: the first frame written is the model-code read (command 0x00), and when
\* that read does not return 9613 (another value, or None after any failure)
\* the session has ended with sys.exit(1) and that frame is the only one ever
\* written; for every sub-command, dry-run included.  (A KeyboardInterrupt
\* during the handshake ends the session too, with no further frame.)
C1_HandshakeFirst ==
    /\ wire # <<>> => (FrameCode(wire[1]) = 0 /\ FrameData(wire[1]) = 0)
    /\ (pc \notin {"handshake", "codec", "parsed"} /\ model_code # Int16(9613))
        => /\ pc = "exit"
           /\ Len(wire) <= 1
           /\ interrupted \/ (outcome = "failed" /\ Len(wire) = 1)

\* a dry-run cycle session ended in failure on a controller that reports 9614
C1_Witness ==
    /\ args.sub_command = "cycle" /\ args.dry_run
    /\ model_code = Int16(9614)
    /\ pc = "exit" /\ outcome = "failed" /\ Len(wire) = 1

\* C2 (as written): an iteration whose temperature poll failed leaves the
\* phase, the target, the hold deadline and the counters alone and does not
\* end the run, and a failed output-power poll does not end the run either.
C2_FailedPollKeepsRunning ==
    [][ /\ (pc = "eval" /\ temp_current.none /\ ~interrupted')
            => /\ outcome' = "running"
               /\ UNCHANGED <<cycle_state, temp_target, time_start, time_stop, cycles_done,
                              remaining>>
        /\ (pc = "poll_power" /\ inflight /\ ~interrupted')
            => outcome' = "running" ]_vars

\* C3 (as written): the loop never polls toward a target whose setpoint write
\* was not acknowledged (the write is retried, and the run fails otherwise).
C3_NoPollWithoutAck ==
    (pc = "poll_temp" /\ ~args.dry_run) => ramp_acked

\* the phases of n full cycles over two points, one entry per phase
Lap == << <<"RAMPING", 0>>, <<"STABLE", 0>>, <<"RAMPING", 1>>, <<"STABLE", 1>> >>
Laps(n) == [i \in 1..(4 * n) |-> Lap[((i - 1) % 4) + 1]]
IsPrefix(a, b) == Len(a) <= Len(b) /\ a = SubSeq(b, 1, Len(a))

\* C4: two cycle points, a limit n >= 1, every poll succeeding with the
\* temperature equal to the target: the phases the loop body runs in are
\* RAMPING(A), STABLE(A), RAMPING(B), STABLE(B), n times over in that order,
\* the loop body does not run again once n cycles are counted, and the loop
\* is left with exactly n cycles counted, after the n-th hold at B.
C4_IdealRun ==
    (TwoPoints /\ Limited /\ args.cycles.num >= 1 /\ on_target)
        => /\ IsPrefix(visited, Laps(args.cycles.num))
           /\ cycles_done <= args.cycles.num
           /\ cycles_done = args.cycles.num
                => (pc \in {"post", "loop", "exit"} /\ visited = Laps(args.cycles.num))
           /\ (pc = "exit" /\ outcome = "ok" /\ ~interrupted)
                => cycles_done = args.cycles.num

\* a run of 2 cycles on a live port ended on its own after 8 phases
C4_Witness ==
    /\ TwoPoints /\ ~args.dry_run /\ args.cycles = Int16(2) /\ on_target
    /\ pc = "exit" /\ outcome = "ok" /\ ~interrupted
    /\ cycles_done = 2 /\ Len(visited) = 8

\* C5 (as written): without a cycle limit only an external cancellation ends
\* the cycling run.
C5_OnlyCancelEnds ==
    (Cycling /\ ~Limited /\ visited # <<>> /\ pc = "exit") => interrupted

\* the remaining count of a limited run on a live port was decremented to 0
LastCycleDone == Cycling /\ ~args.dry_run /\ Limited /\ cycles_done >= 1 /\ remaining.num = 0

\* C6: on a live port with a cycle limit, once the remaining count has been
\* decremented to 0 no frame is written any more, so the last setpoint written
\* is the temperature of the last cycle point.
C6_NoRampAfterLastCycle ==
    /\ [](LastCycleDone =>
            /\ SetpointWrites # <<>>
            /\ LET last_point == args.cycle_points[Len(args.cycle_points)]
               IN  FrameData(SetpointWrites[Len(SetpointWrites)]) * last_point.temp.den
                     = last_point.temp.num * TEMP_SET_C.scaling)
    /\ [][LastCycleDone => wire' = wire]_vars

\* a run of 2 cycles ended with the setpoint of B (10.0) written last, A first
C6_Witness ==
    /\ TwoPoints /\ LastCycleDone /\ args.cycles = Int16(2)
    /\ pc = "exit" /\ outcome = "ok" /\ ~interrupted
    /\ Len(SetpointWrites) = 4
    /\ FrameData(SetpointWrites[1]) = 300
    /\ FrameData(SetpointWrites[4]) = 100

\* C7 (as written): a cancel during cycling is never observed while a
\* request/reply exchange is in flight.
C7_CancelAtBoundary ==
    [][CancelStep => ~inflight]_vars

\* C7 (amended): a cancel during cycling is honoured at whatever statement is
\* executing, also between port.write and the end of port.read (the exchange
\* is then abandoned); no frame is written after it and the session ends
\* with a non-error outcome.
C7_CancelAnywhere ==
    [][ /\ CancelStep => (pc' = "exit" /\ outcome' = "ok" /\ wire' = wire)
        /\ pc = "exit" => (wire' = wire /\ outcome' = outcome) ]_vars

\* a cancel arrived while the reply to a temperature poll was awaited
C7_Witness ==
    /\ Cycling /\ interrupted /\ inflight
    /\ FrameCode(wire[Len(wire)]) = 1
    /\ pc = "exit" /\ outcome = "ok"

(***************************************************************************)
(* Property specification: one call of write_property or read_property on  *)
(* a parameter with a scaling factor, the controller answering in time     *)
(***************************************************************************)
\* the parameters of class Parameter that carry a scaling factor
ScaledReadParams ==
    {TEMP_CONTROL_C, TEMP_AUX_C, TEMP_SET_C, BW_PROPORTIONAL, GAIN_INTEGRAL,
     GAIN_DIFFERENTIAL, OUTPUT_POWER}
ScaledWriteParams == {p \in ScaledReadParams : p.write_cmd >= 0}

\* values of the float arguments: eighths are exact binary floats, so that
\* value * scaling is computed without rounding, as with exact fractions
EngValues ==
    {Frac(n, 8) : n \in -200..200}
    \cup {Frac(235, 10), Frac(26214, 8), Frac(-26214, 8), Frac(4000, 1)}

PropertyCalls ==
    {[op |-> "write", prop |-> p, value |-> v, raw |-> 0] :
        p \in ScaledWriteParams, v \in EngValues}
    \cup {[op |-> "read", prop |-> p, value |-> NoneVal, raw |-> r] :
        p \in ScaledReadParams, r \in EdgeValues \cup {235}}

PropertyInit ==
    /\ call \in PropertyCalls
    /\ pc = "call"
    /\ wire = <<>>
    /\ reply = <<>>
    /\ parsed = Raise("unset")
    /\ result = NoneVal
    /\ rxbuf = <<>>
    /\ late = <<>>
    /\ exch = NoneVal
    /\ SessionIdle

\* line 115-123: the frame is written unless packing raises, and the echo of
\* the controller is scaled back
WriteProperty ==
    /\ pc = "call" /\ call.op = "write"
    /\ LET req == write_request(call.prop, call.value)
       IN  IF req.err = "none"
           THEN /\ wire' = <<req.frame>>
                /\ reply' = ReplyFrame(write_data(call.prop, call.value))
                /\ result' = write_property(call.prop, reply')
           ELSE /\ result' = NoneVal
                /\ UNCHANGED <<wire, reply>>
    /\ pc' = "returned"
    /\ UNCHANGED <<session_vars, parsed, call, port_vars>>

\* line 105-113: the reply carries call.raw
ReadProperty ==
    /\ pc = "call" /\ call.op = "read"
    /\ wire' = <<read_request(call.prop).frame>>
    /\ reply' = ReplyFrame(call.raw)
    /\ result' = read_property(call.prop, reply')
    /\ pc' = "returned"
    /\ UNCHANGED <<session_vars, parsed, call, port_vars>>

PropertyNext == WriteProperty \/ ReadProperty

SpecProperty == PropertyInit /\ [][PropertyNext]_vars

\* write_property has written a frame and returned
Wrote == pc = "returned" /\ call.op = "write" /\ wire # <<>>
\* read_property has returned
Read == pc = "returned" /\ call.op = "read"

\* C13: for a parameter with scaling factor s, write_property encodes in the
\* frame the integer nearest to v * s (at most one half away from it), and
\* read_property returns raw / s for a reply carrying raw.
C13_NearestScaled ==
    /\ Wrote =>
         2 * Abs(FrameData(wire[1]) * call.value.den
                 - call.value.num * call.prop.scaling) <= call.value.den
    /\ Read =>
         /\ ~result.none
         /\ result.num * call.prop.scaling = call.raw * result.den

(***************************************************************************)
(* Port specification: the exchanges of send_command on a serial port      *)
(* whose input buffer keeps what port.read did not take.  The driver is    *)
(* the holding phase of perform_cycles: a temperature read, then a power   *)
(* read, again and again; a failed read is survived there.  Every byte in  *)
(* the buffer carries the number of the exchange whose reply it is part of *)
(***************************************************************************)
\* the bytes of a reply, each with the number n of its exchange
Tagged(bytes, n) == [i \in 1..Len(bytes) |-> [byte |-> bytes[i], of |-> n]]
BytesOf(tagged) == [i \in 1..Len(tagged) |-> tagged[i].byte]

\* how many bytes of a reply arrive before the read timeout of line 267
\* (timeout=0.1): all of them, a part, or none; the others arrive later
InTime == {0, 5, REPLY_LENGTH}

\* lines 201 and 236: the parameter read after prop in the loop
NextPoll(prop) == IF prop = TEMP_CONTROL_C THEN OUTPUT_POWER ELSE TEMP_CONTROL_C

PortInit ==
    /\ call = [prop |-> TEMP_CONTROL_C]
    /\ pc = "send"
    /\ wire = <<>>
    /\ reply = <<>>
    /\ parsed = Raise("unset")
    /\ result = NoneVal
    /\ rxbuf = <<>>
    /\ late = <<>>
    /\ exch = [n |-> 0, got |-> <<>>]
    /\ SessionIdle

\* line 92: port.write(format_command(command, value)); nothing is done to
\* the input buffer.  The bytes that were late for the exchange before have
\* arrived by now; the controller answers with a value of the parameter,
\* and k bytes of the answer arrive before the timeout.
SendCommand ==
    /\ pc = "send" /\ exch.n < MaxExchanges
    /\ wire' = Append(wire, read_request(call.prop).frame)
    /\ exch' = [n |-> exch.n + 1, got |-> <<>>]
    /\ \E raw \in ReadValues(call.prop.read_cmd), k \in InTime :
          LET answer == Tagged(ReplyFrame(raw), exch.n + 1)
          IN  /\ rxbuf' = rxbuf \o late \o SubSeq(answer, 1, k)
              /\ late' = SubSeq(answer, k + 1, Len(answer))
    /\ pc' = "recv"
    /\ UNCHANGED <<session_vars, reply, parsed, call, result>>

\* line 93, in read_property: parse_reply(port.read(REPLY_LENGTH)) takes
\* the first 8 bytes of the input buffer, or all of it at the timeout
RecvReply ==
    /\ pc = "recv"
    /\ LET n == IF Len(rxbuf) < REPLY_LENGTH THEN Len(rxbuf) ELSE REPLY_LENGTH
           buf == SubSeq(rxbuf, 1, n)
       IN  /\ reply' = BytesOf(buf)
           /\ rxbuf' = SubSeq(rxbuf, n + 1, Len(rxbuf))
           /\ exch' = [exch EXCEPT !.got = buf]
           /\ result' = read_property(call.prop, reply')
    /\ call' = [prop |-> NextPoll(call.prop)]
    /\ pc' = "send"
    /\ UNCHANGED <<session_vars, wire, parsed, late>>

PortNext == SendCommand \/ RecvReply

SpecPort == PortInit /\ [][PortNext]_vars

\* read_property has returned a value for the exchange exch.n
Returned == pc = "send" /\ exch.n > 0 /\ ~result.none

\* C18: every value send_command returns is decoded from the reply the
\* controller sent to that same command: no byte of a reply that arrived
\* late or in part is decoded as the reply to a later command.
C18_ReplyOfSameCommand ==
    Returned => \A i \in 1..Len(exch.got) : exch.got[i].of = exch.n

\* the handshake returned 9613 and the one-shot sub-command at hand has ended
\* without a KeyboardInterrupt
OneShotEnded ==
    /\ args.sub_command \in {"status", "set"}
    /\ ~InvalidController(model_code)
    /\ pc = "exit" /\ ~interrupted

\* C12: in the status and set sub-commands, after a successful handshake, a
\* failed property read or write is not fatal: the session does not end with
\* an error because of it.
C12_FailedAccessNotFatal == OneShotEnded => outcome = "ok"

\* the step of an iteration that finds the band reached / the hold over
ReachStep == cycle_state = "RAMPING" /\ cycle_state' = "STABLE"
LeaveStep == cycle_state = "STABLE" /\ cycle_state' = "RAMPING"
\* the dwell duration of the cycle point the machine is at
Dwell == args.cycle_points[cycle_index + 1].dur
\* abs(temp_current - temp_target) <= 0.2, for a temp_current that was read
WithinBand ==
    /\ ~temp_current.none
    /\ 10 * Abs(temp_current.num * temp_target.den
                - temp_target.num * temp_current.den)
           <= 2 * temp_current.den * temp_target.den

\* C15 (as written): on the transition from ramping to holding the hold
\* deadline is the time of that poll plus the dwell duration of the current
\* cycle point.
C15_DeadlineIsPollPlusDwell ==
    [][ReachStep => time_stop' = now + Dwell]_vars

\* C15 (amended): the machine moves from ramping to holding only in an
\* iteration whose temperature is within 0.2 of the target; on that
\* transition the deadline is the time of the poll plus the dwell duration
\* on a live port and the time of the poll itself in a dry run, and the two
\* counters, the cycle index and the target are unchanged.  A ramping
\* iteration whose temperature was read and is outside the band leaves the
\* machine in ramping and goes on, whatever the time is.
C15_RampingToHolding ==
    [][ /\ ReachStep =>
             /\ WithinBand
             /\ time_start' = now
             /\ time_stop' = IF args.dry_run THEN now ELSE now + Dwell
             /\ UNCHANGED <<temp_target, cycle_index, cycles_done, remaining>>
        /\ (/\ pc = "eval" /\ cycle_state = "RAMPING" /\ ~interrupted'
            /\ ~temp_current.none /\ ~WithinBand) =>
             /\ pc' = "post"
             /\ UNCHANGED <<cycle_state, temp_target, time_stop, cycle_index,
                            cycles_done, remaining>> ]_vars

\* on a live port the band was reached after one second or more at a reading
\* of 30.2 for a target of 30.0, and the deadline is 2 seconds later
C15_Witness ==
    /\ Cycling /\ ~args.dry_run
    /\ pc = "post" /\ cycle_state = "STABLE"
    /\ temp_current = Frac(302, 10) /\ temp_target = Frac(300, 10)
    /\ time_start = now /\ time_start > 0
    /\ Dwell = 2 /\ time_stop = time_start + 2
    /\ cycles_done = 0

\* C16 (as written): the holding phase is left only at or past the deadline, so
\* the setpoint has been held for at least its dwell duration since the band
\* was reached.
C16_HeldForDwell ==
    [][LeaveStep => (now >= time_stop /\ now >= time_start + Dwell)]_vars

\* C16 (amended): the holding phase is left only when the time is at or past
\* the deadline, which on a live port is the dwell duration after the band
\* was reached (in a dry run the deadline is the time the band was reached);
\* on leaving, the target becomes the next cycle point, and the completed
\* count is incremented and a bounded remaining count decremented only when
\* the next point is the first one, otherwise both are unchanged.
C16_LeaveHolding ==
    [][LeaveStep =>
         LET next_index == (cycle_index + 1) % Len(args.cycle_points)
         IN  /\ now >= time_stop
             /\ ~args.dry_run => now >= time_start + Dwell
             /\ cycle_index' = next_index
             /\ temp_target' = args.cycle_points[next_index + 1].temp
             /\ IF next_index = 0
                THEN /\ cycles_done' = cycles_done + 1
                     /\ remaining' = IF remaining.none THEN remaining
                                     ELSE Int16(remaining.num - 1)
                ELSE UNCHANGED <<cycles_done, remaining>> ]_vars

\* on a live port the hold at A, with a dwell of 2 seconds, is over and the
\* ramp to B is about to be written; no cycle is counted
C16_Witness ==
    /\ TwoPoints /\ ~args.dry_run /\ Limited
    /\ pc = "ramp" /\ ~inflight /\ cycle_state = "RAMPING"
    /\ cycle_index = 1 /\ temp_target = args.cycle_points[2].temp
    /\ args.cycle_points[1].dur = 2 /\ now >= time_start + 2
    /\ cycles_done = 0 /\ remaining = args.cycles

\* C17: when perform_cycles runs with dry_run set, no frame at all is written
\* to the port during the cycling run (only the model-code read of the
\* handshake, before it, is on the wire), for every cycle limit including
\* an omitted one.
C17_DryRunWritesNothing == (Cycling /\ args.dry_run) => Len(wire) <= 1

\* line 196-198 has run: the loop of a run with a cycle limit was entered
LimitedLoop == Cycling /\ Limited /\ args.cycles.num >= 0 /\ ~remaining.none
\* the cycle limit is 0
NoCycles == Cycling /\ args.cycles = Int16(0)

\* C19: in a run with a cycle limit n >= 0, every state of the cycling loop
\* has cycles_done + remaining = n and 0 <= remaining <= n; with n = 0 the
\* loop body never runs (no iteration is evaluated, no temperature is read)
\* and the only frame written in the cycling run is the initial setpoint
\* write to point A, which a run on a live port that ends has written.
C19_CountersBalance ==
    /\ LimitedLoop =>
         /\ cycles_done + remaining.num = args.cycles.num
         /\ remaining.num >= 0
         /\ remaining.num <= args.cycles.num
    /\ NoCycles =>
         /\ visited = <<>>
         /\ temp_current.none
         /\ Len(wire) <= 2
         /\ Len(wire) = 2 =>
              /\ ~args.dry_run
              /\ IsSetpointWrite(wire[2])
              /\ FrameData(wire[2]) * args.cycle_points[1].temp.den
                     = args.cycle_points[1].temp.num * TEMP_SET_C.scaling
         /\ (pc = "exit" /\ outcome = "ok" /\ ~interrupted /\ ~args.dry_run)
              => Len(wire) = 2

\* one of two cycles is done and one remains, the loop goes on
C19_Witness ==
    /\ LimitedLoop /\ args.cycles = Int16(2)
    /\ cycles_done = 1 /\ remaining = Int16(1)
    /\ pc = "sleep"

====
